---- MODULE Spec2Model ----
(***************************************************************************)
(* Model of the two gate-controller simulators of brannow/gatekeeper:      *)
(*   scripts/udpServerSim.py                 the UDP responder             *)
(*   gatekeeper-pwa/scripts/api-simulator.py the HTTP responder            *)
(* The two scripts are separate programs that share nothing.  A behaviour  *)
(* of this model is a run of one of them: Init chooses the program.        *)
(* Time is counted in ticks of 100 ms, so time.sleep(0.5) is 5 ticks and   *)
(* time.sleep(0.1) is 1 tick.                                              *)
(***************************************************************************)
EXTENDS Integers, Sequences, FiniteSets, TLC

VARIABLES
    prog,        \* which script this run executes: "udp" or "http"
    now,         \* the clock, in ticks of 100 ms
    wake,        \* the time at which the running time.sleep may return
    udp_pc,      \* udpServerSim.py: position of the script
    sockbuf,     \* udpServerSim.py: datagrams queued in the socket, oldest first
    data,        \* udpServerSim.py: local `data` of the loop
    addr,        \* udpServerSim.py: local `addr` of the loop
    readlog,     \* history: the datagrams recvfrom returned, in order
    out,         \* history: the datagrams sendto sent, in order
    udp_raised,  \* history: a socket call of the script raised OSError
    http_pc,     \* api-simulator.py: position of the script
    backlog,     \* api-simulator.py: connections waiting in the listen queue, oldest first
    cur,         \* api-simulator.py: the request the handler is working on
    handled,     \* history: the requests the server accepted, in order
    resps,       \* history: the responses written, in order
    http_raised  \* history: HTTPServer(...) raised OSError

udpvars == <<udp_pc, sockbuf, data, addr, readlog, out, udp_raised>>
httpvars == <<http_pc, backlog, cur, handled, resps, http_raised>>
vars == <<prog, now, wake, udpvars, httpvars>>

----------------------------------------------------------------------------
(* Bounds of the model *)

MaxDatagrams == 2    \* datagrams that arrive at the UDP socket in one run
MaxRequests == 2     \* HTTP requests that reach the server in one run
MaxTime == 0         \* ticks that may pass outside a sleep; a running sleep always runs to its end

(* Program constants *)

UdpSleepTicks == 5     \* time.sleep(0.5)
HttpSleepTicks == 1    \* time.sleep(0.1)
DocReleaseTicks == 10  \* "0x00 (released)  one second later"
RecvBufSize == 1024    \* sock.recvfrom(1024)

Addrs == {"peer1", "peer2"}
Payloads == {<<>>, <<1>>}   \* an empty datagram and a one-byte datagram
None == "None"

\* Request methods, as the request line spells them.
Methods == {"POST", "OPTIONS", "GET"}

\* Request targets, as sequences of tokens: "/", "?", "#" and ";" are the
\* characters urlparse looks for, the other tokens are runs of other
\* characters.  All are origin-form targets (no scheme, no "//" prefix).
Targets ==
    { <<"/", "trigger">>,
      <<"/", "trigger", "?", "x">>,
      <<"/", "trigger", "#", "x">>,
      <<"/", "trigger", ";", "x">>,
      <<"/", "trigger", "/">>,
      <<"/", "Trigger">>,
      <<"/", "x">> }

\* Request bodies: none, or some bytes.
Bodies == {<<>>, <<"x">>}

\* The requests clients send: a POST with or without a body, any other method
\* without one.
Requests ==
    { r \in [method : Methods, target : Targets, body : Bodies] :
        r.method # "POST" => r.body = <<>> }

Min(a, b) == IF a < b THEN a ELSE b

----------------------------------------------------------------------------
(* The clock *)

\* the script is inside `with socket.socket(...) as sock:` with the socket bound
UdpSocketOpen == udp_pc \in {"recvfrom", "send_activated", "sleep", "sleeping", "send_released"}

\* the script is between HTTPServer(...) and the end of serve_forever()
HttpListening == http_pc \in {"serve", "handle", "sleeping", "respond"}

Sleeping ==
    \/ prog = "udp" /\ udp_pc = "sleeping"
    \/ prog = "http" /\ http_pc = "sleeping"

Running ==
    \/ prog = "udp" /\ UdpSocketOpen
    \/ prog = "http" /\ HttpListening

\* 100 ms pass while the script runs
Tick ==
    /\ Running
    /\ now < MaxTime \/ (Sleeping /\ now < wake)
    /\ now' = now + 1
    /\ UNCHANGED <<prog, wake, udpvars, httpvars>>

----------------------------------------------------------------------------
(* scripts/udpServerSim.py *)

\* sock.bind((HOST, PORT)) succeeds
UdpBind ==
    /\ prog = "udp" /\ udp_pc = "bind"
    /\ udp_pc' = "recvfrom"
    /\ UNCHANGED <<prog, now, wake, sockbuf, data, addr, readlog, out, udp_raised, httpvars>>

\* sock.bind raises OSError (port in use, permission denied): the script ends
UdpBindError ==
    /\ prog = "udp" /\ udp_pc = "bind"
    /\ udp_pc' = "crashed"
    /\ udp_raised' = TRUE
    /\ UNCHANGED <<prog, now, wake, sockbuf, data, addr, readlog, out, httpvars>>

\* a peer's datagram reaches the bound socket and is queued by the kernel
UdpArrive(a, d) ==
    /\ prog = "udp" /\ UdpSocketOpen
    /\ Len(readlog) + Len(sockbuf) < MaxDatagrams
    /\ sockbuf' = Append(sockbuf, [from |-> a, payload |-> d, arrived |-> now])
    /\ UNCHANGED <<prog, now, wake, udp_pc, data, addr, readlog, out, udp_raised, httpvars>>

\* Variant of UdpRecv: `if not data: continue`, an empty datagram is read and
\* then ignored.
UdpRecvSkipEmpty ==
    /\ prog = "udp" /\ udp_pc = "recvfrom"
    /\ sockbuf # <<>>
    /\ LET dg == Head(sockbuf)
       IN  /\ data' = SubSeq(dg.payload, 1, Min(Len(dg.payload), RecvBufSize))
           /\ addr' = dg.from
           /\ readlog' = Append(readlog, dg)
           /\ udp_pc' = IF dg.payload = <<>> THEN "recvfrom" ELSE "send_activated"
    /\ sockbuf' = Tail(sockbuf)
    /\ UNCHANGED <<prog, now, wake, out, udp_raised, httpvars>>

\* Variant of UdpRecv: the released reply is left to a timer, so the loop
\* reads the next datagram while the delay of the last one is running.
UdpRecvDuringDelay ==
    /\ prog = "udp" /\ udp_pc \in {"recvfrom", "sleeping"}
    /\ sockbuf # <<>>
    /\ LET dg == Head(sockbuf)
       IN  /\ data' = SubSeq(dg.payload, 1, Min(Len(dg.payload), RecvBufSize))
           /\ addr' = dg.from
           /\ readlog' = Append(readlog, dg)
    /\ sockbuf' = Tail(sockbuf)
    /\ udp_pc' = "send_activated"
    /\ UNCHANGED <<prog, now, wake, out, udp_raised, httpvars>>

\* data, addr = sock.recvfrom(1024)
UdpRecv ==
    /\ prog = "udp" /\ udp_pc = "recvfrom"
    /\ sockbuf # <<>>
    /\ LET dg == Head(sockbuf)
       IN  /\ data' = SubSeq(dg.payload, 1, Min(Len(dg.payload), RecvBufSize))
           /\ addr' = dg.from
           /\ readlog' = Append(readlog, dg)
    /\ sockbuf' = Tail(sockbuf)
    /\ udp_pc' = "send_activated"
    /\ UNCHANGED <<prog, now, wake, out, udp_raised, httpvars>>

\* Variant of UdpRecvError: the loop body is wrapped in try/except OSError
\* that logs and goes on.
UdpRecvErrorLogged ==
    /\ prog = "udp" /\ udp_pc = "recvfrom"
    /\ udp_raised' = TRUE
    /\ UNCHANGED <<prog, now, wake, udp_pc, sockbuf, data, addr, readlog, out, httpvars>>

\* sock.recvfrom raises OSError: nothing catches it
UdpRecvError ==
    /\ prog = "udp" /\ udp_pc = "recvfrom"
    /\ udp_pc' = "crashed"
    /\ udp_raised' = TRUE
    /\ UNCHANGED <<prog, now, wake, sockbuf, data, addr, readlog, out, httpvars>>

\* sock.sendto(b"\x01", addr)
UdpSendActivated ==
    /\ prog = "udp" /\ udp_pc = "send_activated"
    /\ out' = Append(out, [to |-> addr, payload |-> <<1>>, at |-> now])
    /\ udp_pc' = "sleep"
    /\ UNCHANGED <<prog, now, wake, sockbuf, data, addr, readlog, udp_raised, httpvars>>

\* time.sleep(0.5) is called
UdpSleepCall ==
    /\ prog = "udp" /\ udp_pc = "sleep"
    /\ wake' = now + UdpSleepTicks
    /\ udp_pc' = "sleeping"
    /\ UNCHANGED <<prog, now, sockbuf, data, addr, readlog, out, udp_raised, httpvars>>

\* Variant of UdpSleepReturn: the sleep is cut short.
UdpSleepReturnEarly ==
    /\ prog = "udp" /\ udp_pc = "sleeping"
    /\ wake' = 0
    /\ udp_pc' = "send_released"
    /\ UNCHANGED <<prog, now, sockbuf, data, addr, readlog, out, udp_raised, httpvars>>

\* time.sleep(0.5) returns, not before the delay has passed
UdpSleepReturn ==
    /\ prog = "udp" /\ udp_pc = "sleeping"
    /\ now >= wake
    /\ wake' = 0
    /\ udp_pc' = "send_released"
    /\ UNCHANGED <<prog, now, sockbuf, data, addr, readlog, out, udp_raised, httpvars>>

\* Variant of UdpSendReleased: the release is sent twice, against loss.
UdpSendReleasedTwice ==
    /\ prog = "udp" /\ udp_pc = "send_released"
    /\ out' = out \o << [to |-> addr, payload |-> <<0>>, at |-> now],
                        [to |-> addr, payload |-> <<0>>, at |-> now] >>
    /\ udp_pc' = "recvfrom"
    /\ UNCHANGED <<prog, now, wake, sockbuf, data, addr, readlog, udp_raised, httpvars>>

\* Variant of UdpSendReleased: after the release the socket is drained, the
\* datagrams that came in during the delay are thrown away.
UdpSendReleasedFlush ==
    /\ prog = "udp" /\ udp_pc = "send_released"
    /\ out' = Append(out, [to |-> addr, payload |-> <<0>>, at |-> now])
    /\ sockbuf' = <<>>
    /\ udp_pc' = "recvfrom"
    /\ UNCHANGED <<prog, now, wake, data, addr, readlog, udp_raised, httpvars>>

\* sock.sendto(b"\x00", addr), then back to the top of the loop
UdpSendReleased ==
    /\ prog = "udp" /\ udp_pc = "send_released"
    /\ out' = Append(out, [to |-> addr, payload |-> <<0>>, at |-> now])
    /\ udp_pc' = "recvfrom"
    /\ UNCHANGED <<prog, now, wake, sockbuf, data, addr, readlog, udp_raised, httpvars>>

\* either sock.sendto raises OSError: nothing catches it
UdpSendError ==
    /\ prog = "udp" /\ udp_pc \in {"send_activated", "send_released"}
    /\ udp_pc' = "crashed"
    /\ udp_raised' = TRUE
    /\ UNCHANGED <<prog, now, wake, sockbuf, data, addr, readlog, out, httpvars>>

\* Variant of UdpTerminate: a finally block releases the gate on the way out.
UdpTerminateReleases ==
    /\ prog = "udp" /\ UdpSocketOpen
    /\ udp_pc' = "killed"
    /\ out' = IF udp_pc \in {"sleep", "sleeping", "send_released"}
              THEN Append(out, [to |-> addr, payload |-> <<0>>, at |-> now])
              ELSE out
    /\ UNCHANGED <<prog, now, wake, sockbuf, data, addr, readlog, udp_raised, httpvars>>

\* the operator interrupts the script (KeyboardInterrupt, a signal)
UdpTerminate ==
    /\ prog = "udp" /\ UdpSocketOpen
    /\ udp_pc' = "killed"
    /\ UNCHANGED <<prog, now, wake, sockbuf, data, addr, readlog, out, udp_raised, httpvars>>

UdpNext ==
    \/ UdpBind
    \/ UdpBindError
    \/ \E a \in Addrs, d \in Payloads : UdpArrive(a, d)
    \/ UdpRecv
    \/ UdpRecvError
    \/ UdpSendActivated
    \/ UdpSleepCall
    \/ UdpSleepReturn
    \/ UdpSendReleased
    \/ UdpSendError
    \/ UdpTerminate

----------------------------------------------------------------------------
(* gatekeeper-pwa/scripts/api-simulator.py: the handler's pure parts *)

\* the first position of token c in s, or 0
RECURSIVE Find(_, _, _)
Find(s, c, from) ==
    IF from > Len(s) THEN 0
    ELSE IF s[from] = c THEN from
    ELSE Find(s, c, from + 1)

\* the last position of token c in s, or 0
RECURSIVE RFind(_, _, _)
RFind(s, c, from) ==
    IF from < 1 THEN 0
    ELSE IF s[from] = c THEN from
    ELSE RFind(s, c, from - 1)

\* s up to, not including, the first c
Before(s, c) ==
    LET i == Find(s, c, 1) IN IF i = 0 THEN s ELSE SubSeq(s, 1, i - 1)

\* Variant of UrlParsePath: urlsplit(self.path).path, which keeps the
\* parameters in the path.
UrlSplitPath(target) == Before(Before(target, "#"), "?")

\* urlparse(self.path).path: the fragment is cut at the first "#", then the
\* query at the first "?", then the parameters at the first ";" of the last
\* path segment
UrlParsePath(target) ==
    LET url == Before(Before(target, "#"), "?")
        slash == RFind(url, "/", Len(url))
        semi == Find(url, ";", IF slash = 0 THEN 1 ELSE slash)
    IN  IF semi = 0 THEN url ELSE SubSeq(url, 1, semi - 1)

\* send_response(code): the status line and the Server and Date headers
SendResponse(code) ==
    [status |-> code,
     headers |-> << <<"Server", "BaseHTTP">>, <<"Date", "date">> >>,
     body |-> <<>>]

\* send_header(name, value)
SendHeader(resp, name, value) ==
    [resp EXCEPT !.headers = Append(@, <<name, value>>)]

\* send_cors_headers()
SendCorsHeaders(resp) ==
    SendHeader(
        SendHeader(
            SendHeader(resp, "Access-Control-Allow-Origin", "*"),
            "Access-Control-Allow-Methods", "POST, OPTIONS"),
        "Access-Control-Allow-Headers", "Content-Type")

\* wfile.write(bytes)
Write(resp, bytes) == [resp EXCEPT !.body = @ \o bytes]

\* Variant of SendError: the error response carries the CORS headers too.
SendErrorWithCors(req, code, message) ==
    LET page == <<"error page", message>>
        head == SendHeader(
                    SendHeader(
                        SendHeader(SendCorsHeaders(SendResponse(code)), "Connection", "close"),
                        "Content-Type", "text/html;charset=utf-8"),
                    "Content-Length", "len(page)")
    IN  IF req.method = "HEAD" THEN head ELSE Write(head, page)

\* send_error(code, message): an HTML error page, which a HEAD request gets
\* the headers of only
SendError(req, code, message) ==
    LET page == <<"error page", message>>
        head == SendHeader(
                    SendHeader(
                        SendHeader(SendResponse(code), "Connection", "close"),
                        "Content-Type", "text/html;charset=utf-8"),
                    "Content-Length", "len(page)")
    IN  IF req.method = "HEAD" THEN head ELSE Write(head, page)

\* Variant of HandleTriggerResponse: the gate toggles, every second trigger
\* answers differently.
HandleTriggerToggle ==
    Write(SendHeader(SendCorsHeaders(SendResponse(200)), "Content-Type", "text/plain"),
          IF Len(resps) % 2 = 0 THEN <<"OK">> ELSE <<"CLOSED">>)

\* handle_trigger(), after its sleep
HandleTriggerResponse ==
    Write(SendHeader(SendCorsHeaders(SendResponse(200)), "Content-Type", "text/plain"),
          <<"OK">>)

\* Variant of DoOptionsResponse: send_cors_headers() is not called.
DoOptionsNoCors == SendResponse(200)

\* do_OPTIONS()
DoOptionsResponse == SendCorsHeaders(SendResponse(200))

\* Variant of IsTrigger: self.path is compared, not its parsed path.
IsTriggerRawPath(req) == req.target = <<"/", "trigger">>

\* Variant of IsTrigger: parsed_path.path.startswith('/trigger').
IsTriggerPrefix(req) ==
    LET path == UrlParsePath(req.target)
    IN  Len(path) >= 2 /\ SubSeq(path, 1, 2) = <<"/", "trigger">>

\* do_POST(): is this request routed to handle_trigger()?
IsTrigger(req) == UrlParsePath(req.target) = <<"/", "trigger">>

\* the handler class defines do_POST and do_OPTIONS and no other do_ method
HasMethod(m) == m \in {"POST", "OPTIONS"}

----------------------------------------------------------------------------
(* gatekeeper-pwa/scripts/api-simulator.py: the server *)

\* httpd = HTTPServer(server_address, GatekeeperAPIHandler) binds and listens
HttpBind ==
    /\ prog = "http" /\ http_pc = "bind"
    /\ http_pc' = "serve"
    /\ UNCHANGED <<prog, now, wake, udpvars, backlog, cur, handled, resps, http_raised>>

\* Variant of HttpBindError: main() catches the OSError and tries again.
HttpBindErrorRetry ==
    /\ prog = "http" /\ http_pc = "bind"
    /\ http_raised' = TRUE
    /\ UNCHANGED <<prog, now, wake, udpvars, http_pc, backlog, cur, handled, resps>>

\* HTTPServer(...) raises OSError: main() does not catch it
HttpBindError ==
    /\ prog = "http" /\ http_pc = "bind"
    /\ http_pc' = "crashed"
    /\ http_raised' = TRUE
    /\ UNCHANGED <<prog, now, wake, udpvars, backlog, cur, handled, resps>>

\* a client connects and sends a well-formed request (its request line and
\* headers parse); the connection waits to be accepted
HttpConnect(m, t, b) ==
    /\ prog = "http" /\ HttpListening
    /\ Len(handled) + Len(backlog) < MaxRequests
    /\ backlog' = Append(backlog,
                         [conn |-> Len(handled) + Len(backlog) + 1,
                          method |-> m, target |-> t, body |-> b])
    /\ UNCHANGED <<prog, now, wake, udpvars, http_pc, cur, handled, resps, http_raised>>

\* Variant of HttpAccept: a threading server, which accepts the next
\* connection while a handler is in its sleep.
HttpAcceptThreaded ==
    /\ prog = "http" /\ http_pc \in {"serve", "sleeping"}
    /\ backlog # <<>>
    /\ cur' = Head(backlog)
    /\ backlog' = Tail(backlog)
    /\ handled' = Append(handled, Head(backlog))
    /\ http_pc' = "handle"
    /\ UNCHANGED <<prog, now, wake, udpvars, resps, http_raised>>

\* serve_forever() accepts the oldest waiting connection and starts its handler
HttpAccept ==
    /\ prog = "http" /\ http_pc = "serve"
    /\ backlog # <<>>
    /\ cur' = Head(backlog)
    /\ backlog' = Tail(backlog)
    /\ handled' = Append(handled, Head(backlog))
    /\ http_pc' = "handle"
    /\ UNCHANGED <<prog, now, wake, udpvars, resps, http_raised>>

\* the response is complete: the connection is closed, serve_forever() goes on
Respond(resp) ==
    /\ resps' = Append(resps, [req |-> cur, status |-> resp.status,
                               headers |-> resp.headers, body |-> resp.body])
    /\ cur' = None
    /\ http_pc' = "serve"

\* the request's method has no do_ method: send_error(501)
HttpUnsupportedMethod ==
    /\ prog = "http" /\ http_pc = "handle"
    /\ ~HasMethod(cur.method)
    /\ Respond(SendError(cur, 501, "Unsupported method"))
    /\ UNCHANGED <<prog, now, wake, udpvars, backlog, handled, http_raised>>

\* do_OPTIONS()
HttpDoOptions ==
    /\ prog = "http" /\ http_pc = "handle"
    /\ cur.method = "OPTIONS"
    /\ Respond(DoOptionsResponse)
    /\ UNCHANGED <<prog, now, wake, udpvars, backlog, handled, http_raised>>

\* Variant of HttpDoPostNotFound: after the 404 the handler raises
\* SystemExit, which ends serve_forever().
HttpDoPostNotFoundFatal ==
    /\ prog = "http" /\ http_pc = "handle"
    /\ cur.method = "POST"
    /\ ~IsTrigger(cur)
    /\ resps' = Append(resps, [req |-> cur, status |-> 404,
                               headers |-> SendError(cur, 404, "Endpoint not found").headers,
                               body |-> SendError(cur, 404, "Endpoint not found").body])
    /\ cur' = None
    /\ http_pc' = "stopped"
    /\ UNCHANGED <<prog, now, wake, udpvars, backlog, handled, http_raised>>

\* do_POST(), the path is not /trigger: send_error(404, "Endpoint not found")
HttpDoPostNotFound ==
    /\ prog = "http" /\ http_pc = "handle"
    /\ cur.method = "POST"
    /\ ~IsTrigger(cur)
    /\ Respond(SendError(cur, 404, "Endpoint not found"))
    /\ UNCHANGED <<prog, now, wake, udpvars, backlog, handled, http_raised>>

\* do_POST(), the path is /trigger: handle_trigger() calls time.sleep(0.1)
HttpTriggerSleepCall ==
    /\ prog = "http" /\ http_pc = "handle"
    /\ cur.method = "POST"
    /\ IsTrigger(cur)
    /\ wake' = now + HttpSleepTicks
    /\ http_pc' = "sleeping"
    /\ UNCHANGED <<prog, now, udpvars, backlog, cur, handled, resps, http_raised>>

\* handle_trigger(): time.sleep(0.1) returns, not before the delay has passed
HttpTriggerSleepReturn ==
    /\ prog = "http" /\ http_pc = "sleeping"
    /\ now >= wake
    /\ wake' = 0
    /\ http_pc' = "respond"
    /\ UNCHANGED <<prog, now, udpvars, backlog, cur, handled, resps, http_raised>>

\* handle_trigger(): the 200 response is written
HttpTriggerRespond ==
    /\ prog = "http" /\ http_pc = "respond"
    /\ Respond(HandleTriggerResponse)
    /\ UNCHANGED <<prog, now, wake, udpvars, backlog, handled, http_raised>>

\* Ctrl+C: KeyboardInterrupt leaves serve_forever(), main() closes the server
HttpInterrupt ==
    /\ prog = "http" /\ HttpListening
    /\ http_pc' = "stopped"
    /\ UNCHANGED <<prog, now, wake, udpvars, backlog, cur, handled, resps, http_raised>>

HttpNext ==
    \/ HttpBind
    \/ HttpBindError
    \/ \E r \in Requests : HttpConnect(r.method, r.target, r.body)
    \/ HttpAccept
    \/ HttpUnsupportedMethod
    \/ HttpDoOptions
    \/ HttpDoPostNotFound
    \/ HttpTriggerSleepCall
    \/ HttpTriggerSleepReturn
    \/ HttpTriggerRespond
    \/ HttpInterrupt

----------------------------------------------------------------------------

Init ==
    /\ prog \in {"udp", "http"}
    /\ now = 0
    /\ wake = 0
    /\ udp_pc = "bind"
    /\ sockbuf = <<>>
    /\ data = <<>>
    /\ addr = None
    /\ readlog = <<>>
    /\ out = <<>>
    /\ udp_raised = FALSE
    /\ http_pc = "bind"
    /\ backlog = <<>>
    /\ cur = None
    /\ handled = <<>>
    /\ resps = <<>>
    /\ http_raised = FALSE

Next ==
    \/ Tick
    \/ UdpNext
    \/ HttpNext

Spec == Init /\ [][Next]_vars

\* A run of udpServerSim.py in which the process is scheduled and the clock
\* advances: a statement of the loop that can execute does execute, and a
\* sleep that is running ends.
UdpInit == Init /\ prog = "udp"

UdpLoopStep ==
    \/ UdpRecv
    \/ UdpSendActivated
    \/ UdpSleepCall
    \/ UdpSleepReturn
    \/ UdpSendReleased

UdpFairSpec ==
    /\ UdpInit
    /\ [][Tick \/ UdpNext]_vars
    /\ WF_vars(Tick)
    /\ WF_vars(UdpLoopStep)

----------------------------------------------------------------------------
(* Properties *)

\* the replies sent so far, as <<destination, payload>>
OutPairs == [k \in 1..Len(out) |-> <<out[k].to, out[k].payload>>]

\* the replies a sequence of datagrams calls for: 0x01 then 0x00 to each sender
ExpectedReplies(log) ==
    [k \in 1..(2 * Len(log)) |->
        <<log[(k + 1) \div 2].from, IF k % 2 = 1 THEN <<1>> ELSE <<0>>>>]

\* C1: every datagram read from sender A, whatever its payload, is answered
\* with exactly two one-byte datagrams to A and to nobody else, 0x01 then
\* 0x00: the replies sent are always a prefix of the replies the datagrams read
\* call for, the datagram being worked on is the only one whose replies are
\* incomplete, and whenever the loop is back at recvfrom every datagram read
\* has both.
C1_TwoRepliesToSender ==
    /\ Len(out) <= 2 * Len(readlog)
    /\ OutPairs = SubSeq(ExpectedReplies(readlog), 1, Len(out))
    /\ udp_pc \in {"send_activated", "sleep", "sleeping", "send_released"}
          => Len(out) >= 2 * (Len(readlog) - 1)
    /\ udp_pc = "recvfrom" => OutPairs = ExpectedReplies(readlog)

\* C1 witness: two datagrams, one of them empty, from two senders, both answered
C1_Witness ==
    /\ udp_pc = "recvfrom"
    /\ Len(readlog) = 2 /\ Len(out) = 4
    /\ readlog[1].payload = <<>> /\ readlog[2].payload = <<1>>
    /\ readlog[1].from = "peer1" /\ readlog[2].from = "peer2"

\* C2: a datagram is read off the socket only when every datagram read before
\* it has both its replies, and a reply goes to the sender of the datagram
\* read last; so the replies to two datagrams sent back-to-back come in the
\* order 0x01, 0x00 to sender 1, then 0x01, 0x00 to sender 2.
C2_Serialized ==
    [][ /\ Len(readlog') > Len(readlog) => OutPairs = ExpectedReplies(readlog)
        /\ Len(out') > Len(out) =>
              /\ readlog' = readlog /\ readlog # <<>>
              /\ out'[Len(out')].to = readlog[Len(readlog)].from ]_vars

\* C2 witness: sender 2's datagram arrived inside sender 1's delay window and
\* all four replies are out
C2_Witness ==
    /\ Len(readlog) = 2 /\ Len(out) = 4
    /\ readlog[1].from = "peer1" /\ readlog[2].from = "peer2"
    /\ out[1].at <= readlog[2].arrived /\ readlog[2].arrived < out[2].at
    /\ OutPairs = << <<"peer1", <<1>>>>, <<"peer1", <<0>>>>,
                     <<"peer2", <<1>>>>, <<"peer2", <<0>>>> >>

\* the targets of the model whose path component is /trigger
PathIsTrigger(t) ==
    t \in { <<"/", "trigger">>, <<"/", "trigger", "?", "x">>, <<"/", "trigger", "#", "x">> }

\* the targets of the model for which urlparse(target).path is '/trigger'
ParsedPathIsTrigger(t) ==
    t \in { <<"/", "trigger">>, <<"/", "trigger", "?", "x">>, <<"/", "trigger", "#", "x">>,
            <<"/", "trigger", ";", "x">> }

CorsHeaders ==
    { <<"Access-Control-Allow-Origin", "*">>,
      <<"Access-Control-Allow-Methods", "POST, OPTIONS">>,
      <<"Access-Control-Allow-Headers", "Content-Type">> }

HeaderSet(r) == {r.headers[k] : k \in 1..Len(r.headers)}
HeaderNames(r) == {r.headers[k][1] : k \in 1..Len(r.headers)}

\* every request whose handler has finished has its response, in order
AllAnswered ==
    /\ Len(resps) <= Len(handled)
    /\ \A k \in 1..Len(resps) : resps[k].req = handled[k]
    /\ http_pc = "serve" => Len(resps) = Len(handled)

\* C3: every POST whose path is /trigger is answered 200 with the body OK,
\* Content-Type text/plain and the three CORS headers, whatever the request
\* body is.
C3_TriggerIs200 ==
    /\ AllAnswered
    /\ \A k \in 1..Len(resps) :
          LET r == resps[k] IN
          (r.req.method = "POST" /\ PathIsTrigger(r.req.target)) =>
              /\ r.status = 200
              /\ r.body = <<"OK">>
              /\ <<"Content-Type", "text/plain">> \in HeaderSet(r)
              /\ CorsHeaders \subseteq HeaderSet(r)

\* C3 witness: a POST /trigger?x that carries a body has been answered
C3_Witness ==
    \E k \in 1..Len(resps) :
        /\ resps[k].req.method = "POST"
        /\ resps[k].req.target = <<"/", "trigger", "?", "x">>
        /\ resps[k].req.body = <<"x">>
        /\ resps[k].status = 200

\* C4 as claimed: every request other than OPTIONS that is not a POST to
\* /trigger is answered 404.
C4_OtherIs404 ==
    \A k \in 1..Len(resps) :
        LET r == resps[k] IN
        (r.req.method # "OPTIONS" /\ ~(r.req.method = "POST" /\ PathIsTrigger(r.req.target)))
            => r.status = 404

\* C4 as amended: a POST whose parsed path is not /trigger is answered 404; a
\* request whose method is neither POST nor OPTIONS is answered 501, on
\* /trigger as on any other path.
C4_NotFoundOrUnsupported ==
    /\ AllAnswered
    /\ \A k \in 1..Len(resps) :
          LET r == resps[k] IN
          /\ (r.req.method = "POST" /\ ~ParsedPathIsTrigger(r.req.target)) => r.status = 404
          /\ r.req.method \notin {"POST", "OPTIONS"} => r.status = 501

\* C4 witness: a GET /trigger answered 501 and a POST /trigger/ answered 404
C4_Witness ==
    /\ \E k \in 1..Len(resps) :
          /\ resps[k].req.method = "GET" /\ resps[k].req.target = <<"/", "trigger">>
          /\ resps[k].status = 501
    /\ \E k \in 1..Len(resps) :
          /\ resps[k].req.method = "POST" /\ resps[k].req.target = <<"/", "trigger", "/">>
          /\ resps[k].status = 404

\* C5: every OPTIONS request, on any path, is answered 200 with the three CORS
\* headers and an empty body.
C5_OptionsIs200 ==
    /\ AllAnswered
    /\ \A k \in 1..Len(resps) :
          LET r == resps[k] IN
          r.req.method = "OPTIONS" =>
              /\ r.status = 200
              /\ CorsHeaders \subseteq HeaderSet(r)
              /\ r.body = <<>>

\* C5 witness: an OPTIONS on a path that is not /trigger has been answered
C5_Witness ==
    \E k \in 1..Len(resps) :
        /\ resps[k].req.method = "OPTIONS"
        /\ resps[k].req.target = <<"/", "x">>
        /\ resps[k].status = 200

\* C6: the 0x00 reply is never sent earlier than the 0.5 s delay after the
\* 0x01 reply to the same sender, and when the script is about to send 0x00
\* the delay is over.
C6_ReleasedAfterDelay ==
    /\ \A k \in 1..Len(out) :
          k % 2 = 0 =>
              /\ out[k].to = out[k - 1].to
              /\ out[k].payload = <<0>> /\ out[k - 1].payload = <<1>>
              /\ out[k].at >= out[k - 1].at + UdpSleepTicks
    /\ udp_pc = "send_released" =>
          /\ Len(out) % 2 = 1
          /\ now >= out[Len(out)].at + UdpSleepTicks

\* C6 witness: a 0x00 sent exactly 0.5 s after its 0x01
C6_Witness ==
    /\ Len(out) >= 2
    /\ out[2].payload = <<0>>
    /\ out[2].at = out[1].at + UdpSleepTicks

\* the status, headers and body of a response
Reply(r) == <<r.status, r.headers, r.body>>

\* C7: a trigger is answered the same whatever came before it.  HTTP: two
\* requests with the same method and target get the same status, headers and
\* body, wherever they stand in the run, and a trigger gets 200 OK.  UDP: the
\* Nth datagram's replies are those of the first, to its own sender.
C7_Idempotent ==
    /\ \A i, j \in 1..Len(resps) :
          (resps[i].req.method = resps[j].req.method
             /\ resps[i].req.target = resps[j].req.target)
          => Reply(resps[i]) = Reply(resps[j])
    /\ \A k \in 1..Len(resps) :
          (resps[k].req.method = "POST" /\ PathIsTrigger(resps[k].req.target))
          => (resps[k].status = 200 /\ resps[k].body = <<"OK">>)
    /\ http_pc = "serve" => (cur = None /\ wake = 0)
    /\ \A n \in 1..Len(readlog) :
          /\ 2 * n - 1 <= Len(out) =>
                (out[2 * n - 1].payload = out[1].payload
                   /\ out[2 * n - 1].to = readlog[n].from)
          /\ 2 * n <= Len(out) =>
                (out[2 * n].payload = out[2].payload
                   /\ out[2 * n].to = readlog[n].from)
    /\ udp_pc = "recvfrom" => wake = 0

\* C7 witness: a trigger answered 200 OK right after an identical trigger
C7_Witness ==
    /\ Len(resps) = 2
    /\ resps[1].req.method = "POST" /\ resps[1].req.target = <<"/", "trigger">>
    /\ resps[2].req.method = "POST" /\ resps[2].req.target = <<"/", "trigger">>
    /\ resps[2].status = 200

\* C8 as claimed: the 0x00 reply is sent one second after the 0x01 reply (not
\* sooner).
C8_ReleasedAfterOneSecond ==
    \A k \in 1..Len(out) :
        k % 2 = 0 => out[k].at >= out[k - 1].at + DocReleaseTicks

\* C9: the server works on one request at a time: at most one accepted request
\* is without its response, it is the one the handler holds, and the
\* responses come in the order the requests were accepted.
C9_OneRequestAtATime ==
    /\ Len(resps) <= Len(handled)
    /\ Len(handled) - Len(resps) <= 1
    /\ \A k \in 1..Len(resps) : resps[k].req = handled[k]
    /\ http_pc \in {"handle", "sleeping", "respond"} =>
          (Len(handled) = Len(resps) + 1 /\ cur = handled[Len(handled)])
    /\ http_pc = "serve" => Len(handled) = Len(resps)

\* C9 witness: a second request waits in the listen queue while the first, a
\* trigger, is in its delay
C9_Witness ==
    /\ http_pc = "sleeping" /\ now < wake
    /\ Len(backlog) = 1
    /\ Len(handled) = 1 /\ Len(resps) = 0

\* C10: once a receive or a send has raised, the script is over: no datagram is
\* read and no reply is sent after it.
C10_SocketErrorIsFatal ==
    [][ /\ udp_raised' => udp_pc' = "crashed"
        /\ udp_raised => (udp_pc' = udp_pc /\ out' = out /\ readlog' = readlog) ]_vars

\* C10 witness: the send of 0x00 raised while another datagram was waiting
C10_Witness ==
    /\ udp_raised /\ udp_pc = "crashed"
    /\ Len(out) = 1 /\ Len(readlog) = 1
    /\ sockbuf # <<>>

\* the response that the step just appended to resps
NewResponse == resps'[Len(resps')]

\* C11: a 404 does not stop the server: the step that writes a 404 leaves the
\* script in serve_forever(), ready to accept, and a POST /trigger answered
\* after a 404 is answered 200 OK.
C11_ServesAfter404 ==
    [][ Len(resps') > Len(resps) =>
          /\ NewResponse.status = 404 => (http_pc' = "serve" /\ cur' = None)
          /\ ((\E k \in 1..Len(resps) : resps[k].status = 404)
                /\ NewResponse.req.method = "POST"
                /\ PathIsTrigger(NewResponse.req.target))
             => (NewResponse.status = 200 /\ NewResponse.body = <<"OK">>) ]_vars

\* C11 witness: a POST /x answered 404, then a POST /trigger answered 200
C11_Witness ==
    /\ Len(resps) = 2
    /\ resps[1].req.method = "POST" /\ resps[1].req.target = <<"/", "x">>
    /\ resps[1].status = 404
    /\ resps[2].req.method = "POST" /\ resps[2].req.target = <<"/", "trigger">>
    /\ resps[2].status = 200 /\ resps[2].body = <<"OK">>

\* C12: when the bind at startup raises, the script is over: the bind is not
\* tried again, and no datagram or request is ever queued, read or answered.
C12_BindFailureAborts ==
    [][ /\ (udp_pc = "bind" /\ udp_raised') => udp_pc' = "crashed"
        /\ (http_pc = "bind" /\ http_raised') => http_pc' = "crashed"
        /\ (udp_raised /\ readlog = <<>> /\ sockbuf = <<>>)
              => (udp_pc' = "crashed" /\ readlog' = <<>> /\ sockbuf' = <<>> /\ out' = <<>>)
        /\ http_raised
              => (http_pc' = "crashed" /\ backlog' = <<>> /\ handled' = <<>> /\ resps' = <<>>)
        /\ udp_pc' = "bind" => (sockbuf' = <<>> /\ readlog' = <<>> /\ out' = <<>>)
        /\ http_pc' = "bind" => (backlog' = <<>> /\ handled' = <<>> /\ resps' = <<>>) ]_vars

\* C12 witness: HTTPServer(...) raised and nothing was served
C12_Witness ==
    /\ prog = "http" /\ http_raised /\ http_pc = "crashed"
    /\ backlog = <<>> /\ handled = <<>> /\ resps = <<>>

\* the datagrams that reached the socket, in arrival order: those read, then
\* those still queued
Arrivals == readlog \o sockbuf

\* the script ended on a socket error or was terminated
UdpDead == udp_pc \in {"crashed", "killed"}

\* the n-th datagram that reached the socket has both its replies
Answered(n) ==
    /\ Len(readlog) >= n /\ Len(out) >= 2 * n
    /\ out[2 * n - 1].to = readlog[n].from /\ out[2 * n - 1].payload = <<1>>
    /\ out[2 * n].to = readlog[n].from /\ out[2 * n].payload = <<0>>

\* C13: a datagram that arrives while an earlier one is being answered is
\* kept, not dropped: the datagrams that reached the socket are only ever
\* added to at the end and are read in arrival order; and unless the script
\* dies on a socket error or is terminated, each eventually has both replies.
C13_DeferredNotDiscarded ==
    /\ [][ /\ Len(Arrivals') >= Len(Arrivals)
           /\ SubSeq(Arrivals', 1, Len(Arrivals)) = Arrivals ]_vars
    /\ \A n \in 1..MaxDatagrams :
          (Len(Arrivals) >= n) ~> (Answered(n) \/ UdpDead)

\* C13 witness: a second datagram of the same peer arrived during the delay of
\* its first, waited in the socket, and has been answered after it
C13_Witness ==
    /\ udp_pc = "recvfrom" /\ sockbuf = <<>>
    /\ Len(readlog) = 2 /\ Answered(1) /\ Answered(2)
    /\ readlog[1].from = "peer1" /\ readlog[2].from = "peer1"
    /\ out[1].at < readlog[2].arrived /\ readlog[2].arrived < out[2].at

\* C14: a script that is terminated, or whose send raises, sends nothing on
\* its way out and nothing afterwards: a gate that was activated and not yet
\* released stays that way.
C14_NoReleaseOnShutdown ==
    [][ UdpDead' => out' = out ]_vars

\* C14 witness: terminated in the middle of the delay, the sender has 0x01 only
C14_Witness ==
    /\ udp_pc = "killed"
    /\ Len(readlog) = 1 /\ Len(out) = 1
    /\ out[1].payload = <<1>> /\ out[1].to = readlog[1].from
    /\ out[1].at < now /\ now < wake

\* the number of replies sent so far with the payload b
Sent(b) == Cardinality({k \in 1..Len(out) : out[k].payload = b})

\* C15 as claimed: in every state as many 0x01 have been sent as datagrams
\* read, and as many 0x00 or one less.
C15_CountsAsClaimed ==
    /\ Sent(<<1>>) = Len(readlog)
    /\ Sent(<<0>>) \in {Len(readlog), Len(readlog) - 1}

\* C15 as amended: as many 0x01 have been sent as datagrams read, or one less
\* (between recvfrom and the first sendto, and for good when that sendto
\* raises or the script is terminated there); as many 0x00 as 0x01, or one
\* less; nothing but 0x01 and 0x00 is sent, so no reply without a datagram
\* read and at most one trigger activated and not released; and whenever the
\* loop is back at recvfrom the three numbers are equal.
C15_Counts ==
    /\ Sent(<<1>>) + Sent(<<0>>) = Len(out)
    /\ Sent(<<1>>) \in {Len(readlog), Len(readlog) - 1}
    /\ Sent(<<0>>) \in {Sent(<<1>>), Sent(<<1>>) - 1}
    /\ Sent(<<1>>) = Len(readlog) - 1 =>
          (Sent(<<0>>) = Sent(<<1>>) /\ udp_pc \in {"send_activated", "crashed", "killed"})
    /\ udp_pc = "recvfrom" => (Sent(<<1>>) = Len(readlog) /\ Sent(<<0>>) = Len(readlog))

\* C15 witness: the first sendto raised: one datagram read, no reply sent
C15_Witness ==
    /\ udp_pc = "crashed" /\ udp_raised
    /\ Len(readlog) = 1 /\ Len(out) = 0

\* the names of the headers send_cors_headers() sends
CorsNames == {h[1] : h \in CorsHeaders}

\* C16: the CORS headers go out on 200 responses only, those to POST /trigger
\* and to OPTIONS; a 404 or a 501 carries no Access-Control-* header.
C16_CorsOnlyOn200 ==
    \A k \in 1..Len(resps) :
        LET r == resps[k] IN
        /\ r.status # 200 => HeaderNames(r) \cap CorsNames = {}
        /\ r.status \in {404, 501} <=>
              ~(r.req.method = "OPTIONS"
                  \/ (r.req.method = "POST" /\ ParsedPathIsTrigger(r.req.target)))
        /\ HeaderNames(r) \cap CorsNames # {} =>
              /\ r.status = 200
              /\ CorsHeaders \subseteq HeaderSet(r)

\* C16 witness: a 404 for a POST to another path and a 501 for a GET, neither
\* with a CORS header
C16_Witness ==
    /\ Len(resps) = 2
    /\ resps[1].req.method = "POST" /\ resps[1].status = 404
    /\ resps[2].req.method = "GET" /\ resps[2].status = 501
    /\ HeaderNames(resps[1]) \cap CorsNames = {}
    /\ HeaderNames(resps[2]) \cap CorsNames = {}

\* C17 as claimed: a POST to /trigger, with or without a query string or a
\* fragment, is answered 200 OK, and a POST with any other target is answered
\* 404.
C17_RoutingAsClaimed ==
    \A k \in 1..Len(resps) :
        LET r == resps[k] IN
        r.req.method = "POST" =>
            r.status = (IF PathIsTrigger(r.req.target) THEN 200 ELSE 404)

\* C17 as amended: a POST to /trigger, with or without a query string, a
\* fragment or ;parameters (urlparse cuts all three off the path), is answered
\* 200 OK; a POST with any other target, /trigger/ and /Trigger among them, is
\* answered 404.
C17_Routing ==
    \A k \in 1..Len(resps) :
        LET r == resps[k]
            t == r.req.target
        IN  r.req.method = "POST" =>
              /\ t = <<"/", "trigger">> => (r.status = 200 /\ r.body = <<"OK">>)
              /\ (Len(t) = 4 /\ SubSeq(t, 1, 2) = <<"/", "trigger">> /\ t[3] \in {"?", "#", ";"})
                    => (r.status = 200 /\ r.body = <<"OK">>)
              /\ t \in { <<"/", "trigger", "/">>, <<"/", "Trigger">>, <<"/", "x">> }
                    => r.status = 404
              /\ r.status \in {200, 404}

\* C17 witness: POST /trigger;x answered 200 and POST /Trigger answered 404
C17_Witness ==
    /\ \E k \in 1..Len(resps) :
          /\ resps[k].req.method = "POST" /\ resps[k].req.target = <<"/", "trigger", ";", "x">>
          /\ resps[k].status = 200
    /\ \E k \in 1..Len(resps) :
          /\ resps[k].req.method = "POST" /\ resps[k].req.target = <<"/", "Trigger">>
          /\ resps[k].status = 404

====
